---- MODULE Spec2Model ----
(***************************************************************************)
(* The query-language core of wpt.fyi's api/query package: the JSON        *)
(* parsers of RunQuery and of the item queries, BindToRuns, and Size.      *)
(*                                                                         *)
(* Strings are sequences of ASCII codes, so that strings.ToLower and       *)
(* strings.ToUpper are computed.  A JSON value is a record tagged by t; an *)
(* object is a function from Keys to JSON values, Absent for a key the     *)
(* object does not carry.  A Go error is its message, "nil" for no error.  *)
(***************************************************************************)
EXTENDS Integers, Sequences, FiniteSets, TLC

VARIABLES pc, op, arg, pre, err, val, rq, heap, bound

vars == <<pc, op, arg, pre, err, val, rq, heap, bound>>

----------------------------------------------------------------------------
(* Bounds of the model. *)

\* Leading characters of a sample string whose case is varied in the inputs.
MaxCasePos == 2
\* Longest "or" / "and" list (and longest Args list of a tree) in the inputs.
MaxArgs == 2
\* Nesting depth of combinators in the inputs.
MaxDepth == 2
\* Number of bound queries a caller holds at once.
MaxBinds == 2

----------------------------------------------------------------------------
(* Strings. *)

S_a == <<97>>
S_b == <<98>>
S_chrome == <<99, 104, 114, 111, 109, 101>>
S_edge == <<101, 100, 103, 101>>
S_firefox == <<102, 105, 114, 101, 102, 111, 120>>
S_safari == <<115, 97, 102, 97, 114, 105>>
S_unknownbrowser == <<117, 110, 107, 110, 111, 119, 110, 98, 114, 111, 119, 115, 101, 114>>
S_PASS == <<80, 65, 83, 83>>
S_OK == <<79, 75>>
S_FAIL == <<70, 65, 73, 76>>
S_TIMEOUT == <<84, 73, 77, 69, 79, 85, 84>>
S_ERROR == <<69, 82, 82, 79, 82>>
S_UNKNOWN == <<85, 78, 75, 78, 79, 87, 78>>
S_PASSS == <<80, 65, 83, 83, 83>>

\* strings.ToLower, on ASCII.
ToLower(s) == [i \in 1..Len(s) |-> IF s[i] \in 65..90 THEN s[i] + 32 ELSE s[i]]

\* strings.ToUpper, on ASCII.
ToUpper(s) == [i \in 1..Len(s) |-> IF s[i] \in 97..122 THEN s[i] - 32 ELSE s[i]]

\* shared.GetDefaultBrowserNames(): the known browser names.
browsers == <<S_chrome, S_edge, S_firefox, S_safari>>

\* The canonical status names, indexed by status value; value 0 is the
\* default, UNKNOWN.
TestStatusNames == <<S_PASS, S_OK, S_ERROR, S_TIMEOUT, S_FAIL>>

\* shared.TestStatusValueFromString: the value of a canonical name, the
\* default value for any other string.
TestStatusValueFromString(str) ==
  IF \E v \in 1..Len(TestStatusNames) : TestStatusNames[v] = str
  THEN CHOOSE v \in 1..Len(TestStatusNames) : TestStatusNames[v] = str
  ELSE 0

\* shared.TestStatusStringFromValue: the canonical name of a value.
TestStatusStringFromValue(value) ==
  IF value \in 1..Len(TestStatusNames) THEN TestStatusNames[value] ELSE S_UNKNOWN

----------------------------------------------------------------------------
(* JSON values. *)

Keys == {"run_ids", "query", "pattern", "browser_name", "status", "not", "or", "and"}

Absent == [t |-> "absent"]
JNull == [t |-> "null"]
JStr(s) == [t |-> "string", s |-> s]
JNum(n) == [t |-> "number", n |-> n]
JArr(a) == [t |-> "array", a |-> a]
\* The object with the members kv, a set of <<key, value>> pairs.
JObj(kv) ==
  [t |-> "object",
   o |-> [k \in Keys |-> IF \E p \in kv : p[1] = k
                         THEN (CHOOSE p \in kv : p[1] = k)[2]
                         ELSE Absent]]

\* The member k of b as encoding/json sees it when b is decoded into a
\* struct or a map: Absent unless b is an object that carries k.
Member(b, k) == IF b.t = "object" THEN b.o[k] ELSE Absent

----------------------------------------------------------------------------
(* Errors. *)

NoErr == "nil"
\* Any error of encoding/json itself (a value of the wrong JSON type).
ErrJSON == "json: cannot unmarshal"
\* A nil pointer dereference: the call does not return.
PanicNil == "panic: runtime error: invalid memory address or nil pointer dereference"
ErrMissingRunIDs == "Missing run query property: \"run_ids\""
ErrMissingQuery == "Missing run query property: \"query\""
ErrMissingPattern == "Missing test name pattern property: \"pattern\""
ErrPatternNotString == "Missing test name pattern property \"pattern\" is not a string"
ErrMissingBrowserName == "Missing test status constraint property: \"browser_name\""
ErrMissingStatus == "Missing test status constraint property: \"status\""
ErrMissingStatusNot == "Missing test status constraint property: \"status.not\""
ErrInvalidBrowserName == "Invalid browser name"
ErrInvalidTestStatus == "Invalid test status"
ErrMissingNot == "Missing negation property: \"not\""
ErrMissingOr == "Missing disjunction property: \"or\""
ErrMissingAnd == "Missing conjunction property: \"and\""
ErrParseQuery == "Failed to parse query"
ErrParseFragment == "Failed to parse query fragment as test name pattern, test status constraint, negation, disjunction, or conjunction"

----------------------------------------------------------------------------
(* Query nodes. *)

\* The nil ItemQuery interface value.
NilItem == [kind |-> "nil"]
TestNamePattern(p) == [kind |-> "TestNamePattern", Pattern |-> p]
RunTestStatusEq(b, s) == [kind |-> "RunTestStatusEq", BrowserName |-> b, Status |-> s]
RunTestStatusNeq(b, s) == [kind |-> "RunTestStatusNeq", BrowserName |-> b, Status |-> s]
Not(a) == [kind |-> "Not", Arg |-> a]
Or(as) == [kind |-> "Or", Args |-> as]
And(as) == [kind |-> "And", Args |-> as]
True == [kind |-> "True"]
False == [kind |-> "False"]

----------------------------------------------------------------------------
(* encoding/json, as the parsers use it. *)

\* json.Unmarshal of the value v into a Go string that holds "": null and
\* an absent member leave it alone, a JSON string sets it, any other value
\* is a type error.
DecodeString(v) ==
  CASE v.t \in {"absent", "null"} -> [err |-> NoErr, s |-> <<>>]
    [] v.t = "string" -> [err |-> NoErr, s |-> v.s]
    [] OTHER -> [err |-> ErrJSON, s |-> <<>>]

\* json.Unmarshal of the value v into a nil []json.RawMessage: the raw
\* elements of an array, no element for null or an absent member, a type
\* error for any other value.
DecodeRawList(v) ==
  CASE v.t \in {"absent", "null"} -> [err |-> NoErr, a |-> <<>>]
    [] v.t = "array" -> [err |-> NoErr, a |-> v.a]
    [] OTHER -> [err |-> ErrJSON, a |-> <<>>]

\* Whether json.Unmarshal of b into a struct or a map fails at b itself: only
\* an object, or null (which leaves the target alone), can be decoded.
NotAnObject(b) == b.t \notin {"object", "null"}

----------------------------------------------------------------------------
(* The parsers of the query atoms.  Each takes the target it is called on  *)
(* and the JSON value, and yields the error it returns with the target as  *)
(* the call leaves it.                                                     *)

\* (tnp *TestNamePattern) UnmarshalJSON
TestNamePattern_UnmarshalJSON(tnp, b) ==
  LET patternMsg == Member(b, "pattern") IN
  IF NotAnObject(b) THEN [err |-> ErrJSON, val |-> tnp]
  ELSE IF patternMsg = Absent THEN [err |-> ErrMissingPattern, val |-> tnp]
  \* data["pattern"] is a nil *json.RawMessage when the member is null, and
  \* *patternMsg dereferences it.
  ELSE IF patternMsg = JNull THEN [err |-> PanicNil, val |-> tnp]
  ELSE IF patternMsg.t # "string" THEN [err |-> ErrPatternNotString, val |-> tnp]
  ELSE [err |-> NoErr, val |-> [tnp EXCEPT !.Pattern = patternMsg.s]]

\* The loop over browsers of the two status parsers.
browserNameOK(browserName) == \E i \in 1..Len(browsers) : browserName = browsers[i]

\* StatusConstraint without the comparison of statusStr with statusStr2: a
\* status string that is no canonical name is taken as the default value.
StatusConstraint_AnyStatus(t, dataBrowserName, dataStatus, errStatus) ==
  LET browserName == ToLower(dataBrowserName)
      status == TestStatusValueFromString(ToUpper(dataStatus))
  IN IF Len(dataBrowserName) = 0 THEN [err |-> ErrMissingBrowserName, val |-> t]
     ELSE IF Len(dataStatus) = 0 THEN [err |-> errStatus, val |-> t]
     ELSE IF ~browserNameOK(browserName) THEN [err |-> ErrInvalidBrowserName, val |-> t]
     ELSE [err |-> NoErr,
           val |-> [t EXCEPT !.BrowserName = browserName, !.Status = status]]

\* The part the two status parsers share, from the decoded browser name and
\* status string on; errStatus is the error for an empty status string.
StatusConstraint(t, dataBrowserName, dataStatus, errStatus) ==
  LET browserName == ToLower(dataBrowserName)
      statusStr == ToUpper(dataStatus)
      status == TestStatusValueFromString(statusStr)
      statusStr2 == TestStatusStringFromValue(status)
  IN IF Len(dataBrowserName) = 0 THEN [err |-> ErrMissingBrowserName, val |-> t]
     ELSE IF Len(dataStatus) = 0 THEN [err |-> errStatus, val |-> t]
     ELSE IF ~browserNameOK(browserName) THEN [err |-> ErrInvalidBrowserName, val |-> t]
     ELSE IF statusStr # statusStr2 THEN [err |-> ErrInvalidTestStatus, val |-> t]
     ELSE [err |-> NoErr,
           val |-> [t EXCEPT !.BrowserName = browserName, !.Status = status]]

\* (tse *RunTestStatusEq) UnmarshalJSON
RunTestStatusEq_UnmarshalJSON(tse, b) ==
  LET name == DecodeString(Member(b, "browser_name"))
      status == DecodeString(Member(b, "status"))
  IN IF NotAnObject(b) \/ name.err # NoErr \/ status.err # NoErr
     THEN [err |-> ErrJSON, val |-> tse]
     ELSE StatusConstraint(tse, name.s, status.s, ErrMissingStatus)

\* (tsn *RunTestStatusNeq) UnmarshalJSON
RunTestStatusNeq_UnmarshalJSON(tsn, b) ==
  LET name == DecodeString(Member(b, "browser_name"))
      statusMsg == Member(b, "status")
      \* "status" is decoded into struct{ Not string }.
      statusNot == IF NotAnObject(statusMsg) /\ statusMsg # Absent
                   THEN [err |-> ErrJSON, s |-> <<>>]
                   ELSE DecodeString(Member(statusMsg, "not"))
  IN IF NotAnObject(b) \/ name.err # NoErr \/ statusNot.err # NoErr
     THEN [err |-> ErrJSON, val |-> tsn]
     ELSE StatusConstraint(tsn, name.s, statusNot.s, ErrMissingStatusNot)

RECURSIVE unmarshalItem(_)
RECURSIVE unmarshalArgs(_, _, _)

\* The loop of Or.UnmarshalJSON and And.UnmarshalJSON over the raw elements:
\* the first element that fails ends it.
unmarshalArgs(msgs, i, qs) ==
  IF i > Len(msgs) THEN [err |-> NoErr, val |-> qs]
  ELSE LET r == unmarshalItem(msgs[i])
       IN IF r.err # NoErr THEN [err |-> r.err, val |-> <<>>]
          ELSE unmarshalArgs(msgs, i + 1, Append(qs, r.val))

\* (n Not) UnmarshalJSON: the receiver is a copy of the value json.Unmarshal
\* was given, so the assignment to n.Arg is lost when the call returns.
Not_UnmarshalJSON(n, b) ==
  LET dataNot == Member(b, "not")
      r == unmarshalItem(dataNot)
      copy == [n EXCEPT !.Arg = r.val]
  IN IF NotAnObject(b) THEN [err |-> ErrJSON, val |-> n]
     ELSE IF dataNot = Absent THEN [err |-> ErrMissingNot, val |-> n]
     ELSE [err |-> r.err, val |-> n]

\* (o *Or) UnmarshalJSON
Or_UnmarshalJSON(o, b) ==
  LET data == DecodeRawList(Member(b, "or"))
      r == unmarshalArgs(data.a, 1, <<>>)
  IN IF NotAnObject(b) \/ data.err # NoErr THEN [err |-> ErrJSON, val |-> o]
     ELSE IF Len(data.a) = 0 THEN [err |-> ErrMissingOr, val |-> o]
     ELSE IF r.err # NoErr THEN [err |-> r.err, val |-> o]
     ELSE [err |-> NoErr, val |-> [o EXCEPT !.Args = r.val]]

\* (a *And) UnmarshalJSON
And_UnmarshalJSON(a, b) ==
  LET data == DecodeRawList(Member(b, "and"))
      r == unmarshalArgs(data.a, 1, <<>>)
  IN IF NotAnObject(b) \/ data.err # NoErr THEN [err |-> ErrJSON, val |-> a]
     ELSE IF Len(data.a) = 0 THEN [err |-> ErrMissingAnd, val |-> a]
     ELSE IF r.err # NoErr THEN [err |-> r.err, val |-> a]
     ELSE [err |-> NoErr, val |-> [a EXCEPT !.Args = r.val]]

\* unmarshalItem: each parser in turn on a zero value; the first that
\* returns no error decides.  A panic in a parser leaves unmarshalItem too.
unmarshalItem(b) ==
  LET tnp == TestNamePattern_UnmarshalJSON(TestNamePattern(<<>>), b)
      tse == RunTestStatusEq_UnmarshalJSON(RunTestStatusEq(<<>>, 0), b)
      tsn == RunTestStatusNeq_UnmarshalJSON(RunTestStatusNeq(<<>>, 0), b)
      n == Not_UnmarshalJSON(Not(NilItem), b)
      o == Or_UnmarshalJSON(Or(<<>>), b)
      a == And_UnmarshalJSON(And(<<>>), b)
      panic == [err |-> PanicNil, val |-> NilItem]
  IN CASE tnp.err = NoErr -> tnp
       [] tnp.err = PanicNil -> panic
       [] tse.err = NoErr -> tse
       [] tsn.err = NoErr -> tsn
       [] n.err = NoErr -> n
       [] n.err = PanicNil -> panic
       [] o.err = NoErr -> o
       [] o.err = PanicNil -> panic
       [] a.err = NoErr -> a
       [] a.err = PanicNil -> panic
       [] OTHER -> [err |-> ErrParseFragment, val |-> NilItem]

----------------------------------------------------------------------------
(* Size.  A call yields [panic, n]: Size on a nil ItemQuery is a method call *)
(* on a nil interface, which panics.                                        *)

RECURSIVE Size(_)
RECURSIVE SumSizes(_, _, _)

\* The loop of itemQueries.Size.
SumSizes(c, i, s) ==
  IF i > Len(c) THEN [panic |-> FALSE, n |-> s]
  ELSE LET r == Size(c[i])
       IN IF r.panic THEN r ELSE SumSizes(c, i + 1, s + r.n)

\* (c itemQueries) Size
itemQueries_Size(c) == SumSizes(c, 1, 0)

\* Size with Not costing what its argument costs.
Size_NotAddsNothing(q) ==
  CASE q.kind = "nil" -> [panic |-> TRUE, n |-> 0]
    [] q.kind \in {"TestNamePattern", "RunTestStatusEq", "RunTestStatusNeq"} ->
         [panic |-> FALSE, n |-> 1]
    [] q.kind = "Or" -> itemQueries_Size(q.Args)
    [] q.kind = "And" -> itemQueries_Size(q.Args)
    [] q.kind = "Not" -> Size(q.Arg)
    [] q.kind \in {"True", "False"} -> [panic |-> FALSE, n |-> 0]

\* Size of an ItemQuery, by its dynamic type.
Size(q) ==
  CASE q.kind = "nil" -> [panic |-> TRUE, n |-> 0]
    [] q.kind \in {"TestNamePattern", "RunTestStatusEq", "RunTestStatusNeq"} ->
         [panic |-> FALSE, n |-> 1]
    [] q.kind = "Or" -> itemQueries_Size(q.Args)
    [] q.kind = "And" -> itemQueries_Size(q.Args)
    [] q.kind = "Not" ->
         LET r == Size(q.Arg) IN IF r.panic THEN r ELSE [panic |-> FALSE, n |-> 1 + r.n]
    [] q.kind \in {"True", "False"} -> [panic |-> FALSE, n |-> 0]

RECURSIVE ExistsSum(_, _, _)
\* The loop of Exists.Size over e.Args.
ExistsSum(args, i, sum) ==
  IF i > Len(args) THEN [panic |-> FALSE, n |-> sum]
  ELSE LET r == itemQueries_Size(args[i])
       IN IF r.panic THEN r ELSE ExistsSum(args, i + 1, sum + r.n)

\* (e Exists) Size, of the value of e.Args.
Exists_Size(args) == ExistsSum(args, 1, 0)

----------------------------------------------------------------------------
(* The inputs. *)

Min(a, b) == IF a < b THEN a ELSE b

\* The letter c in the other case.
Flip(c) == IF c \in 65..90 THEN c + 32 ELSE IF c \in 97..122 THEN c - 32 ELSE c

\* s with the case of any of its first MaxCasePos characters changed.
CaseVariants(s) ==
  {[i \in 1..Len(s) |-> IF i \in m THEN Flip(s[i]) ELSE s[i]] :
     m \in SUBSET (1..Min(Len(s), MaxCasePos))}

\* The sequences over S of length at most n.
SeqsUpTo(S, n) == UNION {[1..k -> S] : k \in 0..n}

BrowserInputs == CaseVariants(S_chrome) \cup {S_firefox, S_unknownbrowser, <<>>}
StatusInputs == CaseVariants(S_PASS) \cup {S_FAIL, S_PASSS, S_UNKNOWN, <<>>}

\* {"pattern": v}
JPattern(v) == JObj({<<"pattern", v>>})
\* {"browser_name": b, "status": s}
JStatusEq(b, s) == JObj({<<"browser_name", b>>, <<"status", s>>})
\* {"browser_name": b, "status": {"not": s}}
JStatusNeq(b, s) == JObj({<<"browser_name", b>>, <<"status", JObj({<<"not", s>>})>>})
\* {"not": x}
JNot(x) == JObj({<<"not", x>>})
\* {"or": [xs]}
JOr(xs) == JObj({<<"or", JArr(xs)>>})
\* {"and": [xs]}
JAnd(xs) == JObj({<<"and", JArr(xs)>>})
\* The object f with the member k: v added.
With(f, k, v) == [f EXCEPT !.o[k] = v]

\* Values that are no JSON string.
NonStrings == {JNull, JNum(1), JArr(<<>>), JObj({})}

PatternFrags == {JPattern(v) : v \in {JStr(S_a), JStr(<<>>)} \cup NonStrings}
EqFrags == {JStatusEq(JStr(b), JStr(s)) : b \in BrowserInputs, s \in StatusInputs}
NeqFrags == {JStatusNeq(JStr(b), JStr(s)) : b \in BrowserInputs, s \in StatusInputs}
OddFrags ==
  {JNull, JNum(1), JStr(S_a), JArr(<<>>), JObj({}),
   JObj({<<"browser_name", JStr(S_chrome)>>}),
   JObj({<<"status", JStr(S_PASS)>>}),
   JStatusEq(JNum(1), JStr(S_PASS)),
   JStatusEq(JStr(S_chrome), JNum(1)),
   JStatusEq(JStr(S_chrome), JNull),
   JStatusNeq(JStr(S_chrome), JNum(1)),
   JStatusNeq(JNull, JStr(S_PASS)),
   JObj({<<"or", JNull>>}), JObj({<<"or", JNum(1)>>}), JObj({<<"and", JStr(S_a)>>})}
LeafFrags == PatternFrags \cup EqFrags \cup NeqFrags \cup OddFrags

\* The children the combinator inputs are built from: atoms that parse, an
\* unknown browser, a null pattern, null.
Kids0 ==
  {JPattern(JStr(S_a)), JStatusEq(JStr(S_chrome), JStr(S_PASS)),
   JStatusEq(JStr(S_chrome), JStr(S_FAIL)),
   JStatusEq(JStr(S_unknownbrowser), JStr(S_PASS)), JPattern(JNull), JNull}

RECURSIVE Kids(_)
Kids(d) ==
  IF d = 0 THEN Kids0
  ELSE {JNot(k) : k \in Kids(d - 1)}
         \cup {JAnd(<<JPattern(JStr(S_a)), JNot(JPattern(JStr(S_a)))>>)}

\* The combinators over the children K.
Combs(K) ==
  {JNot(k) : k \in K}
    \cup {JOr(xs) : xs \in SeqsUpTo(K, MaxArgs)}
    \cup {JAnd(xs) : xs \in SeqsUpTo(K, MaxArgs)}

\* Fragments that carry the keys of more than one shape.
MultiFrags ==
  {With(f, "or", JArr(<<k>>)) :
     f \in {JPattern(JStr(S_a)), JPattern(JNull), JPattern(JNum(1)),
            JStatusEq(JStr(S_unknownbrowser), JStr(S_PASS)),
            JStatusEq(JStr(S_chrome), JStr(S_PASS)),
            JStatusNeq(JStr(S_chrome), JStr(S_PASSS)),
            JNot(JPattern(JStr(S_a))), JNot(JNum(1)), JAnd(<<JPattern(JStr(S_a))>>)},
     k \in {JPattern(JStr(S_a)), JNull}}
    \cup {With(JOr(<<JNum(1)>>), "and", JArr(<<JPattern(JStr(S_a))>>))}

Fragments == LeafFrags \cup MultiFrags \cup UNION {Combs(Kids(d)) : d \in 0..(MaxDepth - 1)}

\* The leaves the trees given to Size are built from, the nil ItemQuery
\* among them.
TreeLeaves ==
  {TestNamePattern(S_a), RunTestStatusEq(S_chrome, 1), RunTestStatusNeq(S_chrome, 1),
   True, False, NilItem}

RECURSIVE TreeKids(_)
TreeKids(d) ==
  IF d = 0 THEN TreeLeaves
  ELSE {Not(k) : k \in TreeKids(d - 1)}
         \cup {And(<<TestNamePattern(S_a), Not(True)>>), Or(<<>>)}

TreesOver(K) ==
  {Not(k) : k \in K}
    \cup {Or(xs) : xs \in SeqsUpTo(K, MaxArgs)}
    \cup {And(xs) : xs \in SeqsUpTo(K, MaxArgs)}

Trees == TreeLeaves \cup UNION {TreesOver(TreeKids(d)) : d \in 0..(MaxDepth - 1)}

\* The alternatives of the Exists values given to Size.
Alternatives ==
  {<<>>, <<TestNamePattern(S_a)>>, <<NilItem>>,
   <<RunTestStatusEq(S_chrome, 1), Not(RunTestStatusNeq(S_chrome, 1))>>,
   <<And(<<TestNamePattern(S_a), True>>), Or(<<False>>)>>}

Exists(runs, args) == [kind |-> "Exists", Runs |-> runs, Args |-> args]

ExistsInputs == {Exists(<<1, 2>>, as) : as \in SeqsUpTo(Alternatives, MaxArgs)}

----------------------------------------------------------------------------
(* The state.                                                              *)
(*   pc, op, arg, pre   the call being made: whether it has returned, the  *)
(*                      operation, its input, and its target before it     *)
(*   err, val           what the call returned, or left in its target      *)
(*   rq                 the caller's RunQuery                              *)
(*   heap               the backing arrays of the [](itemQueries) slices   *)
(*   bound              the Exists values the caller got from BindToRuns   *)

\* A slice of alternatives is the address of its backing array, 0 for the
\* nil and the empty slice.  A behaviour parses one payload, which allocates
\* at most one array.
Addrs == {1}

ZeroRunQuery == [RunIDs |-> <<>>, Exists |-> 0]
NoExists == [set |-> FALSE, Runs |-> <<>>, Args |-> 0]

Untouched ==
  /\ rq = ZeroRunQuery
  /\ heap = [a \in Addrs |-> <<>>]
  /\ bound = [i \in 1..MaxBinds |-> NoExists]

\* A call of one of the pure operations on one of the inputs.
InitItem ==
  /\ pc = "call"
  /\ err = NoErr
  /\ val = NilItem
  /\ Untouched
  /\ \/ op = "unmarshalItem" /\ arg \in Fragments /\ pre = NilItem
     \/ /\ op = "TestNamePattern.UnmarshalJSON"
        /\ arg \in LeafFrags
        /\ pre \in {TestNamePattern(<<>>), TestNamePattern(S_b)}
     \/ /\ op = "RunTestStatusEq.UnmarshalJSON"
        /\ arg \in LeafFrags
        /\ pre \in {RunTestStatusEq(<<>>, 0), RunTestStatusEq(S_edge, 2)}
     \/ /\ op = "RunTestStatusNeq.UnmarshalJSON"
        /\ arg \in LeafFrags
        /\ pre \in {RunTestStatusNeq(<<>>, 0), RunTestStatusNeq(S_edge, 2)}
     \/ op = "Size" /\ arg \in Trees /\ pre = NilItem
     \/ op = "Exists.Size" /\ arg \in ExistsInputs /\ pre = NilItem

Returns(r) ==
  /\ pc' = "done"
  /\ err' = r.err
  /\ val' = r.val
  /\ UNCHANGED <<op, arg, pre, rq, heap, bound>>

\* What a call of Size returns: the integer, or the panic.
SizeResult(r) ==
  IF r.panic THEN [err |-> PanicNil, val |-> NilItem]
  ELSE [err |-> NoErr, val |-> [kind |-> "int", n |-> r.n]]

CallUnmarshalItem ==
  pc = "call" /\ op = "unmarshalItem" /\ Returns(unmarshalItem(arg))

CallTestNamePattern ==
  /\ pc = "call" /\ op = "TestNamePattern.UnmarshalJSON"
  /\ Returns(TestNamePattern_UnmarshalJSON(pre, arg))

CallRunTestStatusEq ==
  /\ pc = "call" /\ op = "RunTestStatusEq.UnmarshalJSON"
  /\ Returns(RunTestStatusEq_UnmarshalJSON(pre, arg))

CallRunTestStatusNeq ==
  /\ pc = "call" /\ op = "RunTestStatusNeq.UnmarshalJSON"
  /\ Returns(RunTestStatusNeq_UnmarshalJSON(pre, arg))

CallSize ==
  pc = "call" /\ op = "Size" /\ Returns(SizeResult(Size(arg)))

CallExistsSize ==
  pc = "call" /\ op = "Exists.Size" /\ Returns(SizeResult(Exists_Size(arg.Args)))

NextItem ==
  \/ CallUnmarshalItem
  \/ CallTestNamePattern
  \/ CallRunTestStatusEq
  \/ CallRunTestStatusNeq
  \/ CallSize
  \/ CallExistsSize

SpecItem == InitItem /\ [][NextItem]_vars

----------------------------------------------------------------------------
(* The claims about the item parsers and Size, under SpecItem. *)

\* A browser name that matches a known one, cases ignored.
KnownBrowser(b) == \E i \in 1..Len(browsers) : ToLower(b) = ToLower(browsers[i])

\* A status string whose upper-cased form is the canonical name of the
\* value it parses to.
RoundTrips(s) ==
  ToUpper(s) = TestStatusStringFromValue(TestStatusValueFromString(ToUpper(s)))

Shapes == <<"TestNamePattern", "RunTestStatusEq", "RunTestStatusNeq", "Not", "Or", "And">>

RECURSIVE ShapeOf(_)

\* Whether the fragment f has the shape: its required keys are present with
\* values of the right type, a status atom's values being known ones and a
\* combinator's children being fragments of some shape themselves.
Satisfies(shape, f) ==
  /\ f.t = "object"
  /\ CASE shape = "TestNamePattern" -> f.o["pattern"].t = "string"
       [] shape = "RunTestStatusEq" ->
            /\ f.o["browser_name"].t = "string"
            /\ f.o["status"].t = "string"
            /\ KnownBrowser(f.o["browser_name"].s)
            /\ RoundTrips(f.o["status"].s)
       [] shape = "RunTestStatusNeq" ->
            /\ f.o["browser_name"].t = "string"
            /\ f.o["status"].t = "object"
            /\ f.o["status"].o["not"].t = "string"
            /\ KnownBrowser(f.o["browser_name"].s)
            /\ RoundTrips(f.o["status"].o["not"].s)
       [] shape = "Not" -> f.o["not"] # Absent /\ ShapeOf(f.o["not"]) # "none"
       [] shape = "Or" ->
            /\ f.o["or"].t = "array"
            /\ Len(f.o["or"].a) > 0
            /\ \A i \in 1..Len(f.o["or"].a) : ShapeOf(f.o["or"].a[i]) # "none"
       [] shape = "And" ->
            /\ f.o["and"].t = "array"
            /\ Len(f.o["and"].a) > 0
            /\ \A i \in 1..Len(f.o["and"].a) : ShapeOf(f.o["and"].a[i]) # "none"

\* The first shape, in the order of Shapes, that f has; "none" if it has none.
ShapeOf(f) ==
  IF \E i \in 1..Len(Shapes) : Satisfies(Shapes[i], f)
  THEN Shapes[CHOOSE i \in 1..Len(Shapes) :
                /\ Satisfies(Shapes[i], f)
                /\ \A j \in 1..(i - 1) : ~Satisfies(Shapes[j], f)]
  ELSE "none"

\* C4: unmarshalItem returns the node of the first shape, in the order name
\* pattern, status-equals, status-not-equals, negation, disjunction,
\* conjunction, that the fragment has, and returns an error and no node when
\* the fragment has none of the shapes.
C4_FirstShapeDecides ==
  (pc = "done" /\ op = "unmarshalItem") =>
    IF ShapeOf(arg) = "none"
    THEN err \notin {NoErr, PanicNil} /\ val = NilItem
    ELSE err = NoErr /\ val.kind = ShapeOf(arg)

\* Whether arg is a status atom for the parser op: a browser name string with
\* a status string (status-equals) or with {"not": status string}.
IsStatusAtom ==
  /\ arg.t = "object"
  /\ arg.o["browser_name"].t = "string"
  /\ \/ op = "RunTestStatusEq.UnmarshalJSON" /\ arg.o["status"].t = "string"
     \/ /\ op = "RunTestStatusNeq.UnmarshalJSON"
        /\ arg.o["status"].t = "object"
        /\ arg.o["status"].o["not"].t = "string"

AtomBrowser == arg.o["browser_name"].s
AtomStatus ==
  IF op = "RunTestStatusEq.UnmarshalJSON" THEN arg.o["status"].s
  ELSE arg.o["status"].o["not"].s

\* C5: parsing a status-equals or status-not-equals atom fails when the
\* browser name matches no known browser name (cases ignored) or when the
\* upper-cased status is not the canonical name of the value it parses to;
\* otherwise it succeeds and stores the lower-cased browser name and the
\* parsed status value.
C5_StatusAtomValidated ==
  (pc = "done" /\ op \in {"RunTestStatusEq.UnmarshalJSON", "RunTestStatusNeq.UnmarshalJSON"}
     /\ IsStatusAtom) =>
    IF KnownBrowser(AtomBrowser) /\ RoundTrips(AtomStatus)
    THEN /\ err = NoErr
         /\ val = [pre EXCEPT !.BrowserName = ToLower(AtomBrowser),
                              !.Status = TestStatusValueFromString(ToUpper(AtomStatus))]
    ELSE err \notin {NoErr, PanicNil} /\ val = pre

\* A status-equals atom with the browser name and the status in mixed case
\* has been parsed into a target that held other values.
C5_Witness ==
  /\ pc = "done" /\ op = "RunTestStatusEq.UnmarshalJSON" /\ IsStatusAtom
  /\ AtomBrowser # ToLower(AtomBrowser)
  /\ AtomStatus # ToUpper(AtomStatus)
  /\ pre = RunTestStatusEq(S_edge, 2)
  /\ err = NoErr
  /\ val = RunTestStatusEq(S_chrome, 1)

\* C6: for an unknown browser with a valid status, the error unmarshalItem
\* returns is the unknown-browser error, not the error of a fragment that has
\* no shape.
C6_UnknownBrowserReported ==
  (pc = "done" /\ op = "unmarshalItem"
     /\ arg = JStatusEq(JStr(S_unknownbrowser), JStr(S_PASS))) =>
    err = ErrInvalidBrowserName /\ err # ErrParseFragment

\* C7: parsing {"not": X} through unmarshalItem yields, when X parses, a Not
\* whose Arg is the tree parsed from X and whose Size is one more than that
\* tree's, and fails when X does not parse.
C7_NotKeepsItsChild ==
  (pc = "done" /\ op = "unmarshalItem" /\ arg \in {JNot(k) : k \in Kids0 \cup Kids(1)}) =>
    LET x == unmarshalItem(arg.o["not"])
    IN IF x.err = NoErr
       THEN /\ err = NoErr
            /\ val = Not(x.val)
            /\ Size(val) = [panic |-> FALSE, n |-> 1 + Size(x.val).n]
       ELSE err # NoErr

\* What the claim says a well-formed tree costs.
RECURSIVE Cost(_)
RECURSIVE CostSum(_)
CostSum(ts) == IF ts = <<>> THEN 0 ELSE Cost(Head(ts)) + CostSum(Tail(ts))
Cost(t) ==
  CASE t.kind \in {"TestNamePattern", "RunTestStatusEq", "RunTestStatusNeq"} -> 1
    [] t.kind \in {"True", "False"} -> 0
    [] t.kind = "Not" -> 1 + Cost(t.Arg)
    [] t.kind \in {"And", "Or"} -> CostSum(t.Args)

RECURSIVE CostOfAlternatives(_)
CostOfAlternatives(as) ==
  IF as = <<>> THEN 0 ELSE CostSum(Head(as)) + CostOfAlternatives(Tail(as))

\* A tree with no nil ItemQuery in it.
RECURSIVE WellFormed(_)
WellFormed(t) ==
  CASE t.kind = "nil" -> FALSE
    [] t.kind = "Not" -> WellFormed(t.Arg)
    [] t.kind \in {"And", "Or"} -> \A i \in 1..Len(t.Args) : WellFormed(t.Args[i])
    [] OTHER -> TRUE

\* C8: Size of a tree is a non-negative integer: 1 for a name pattern and for
\* the two status atoms, 0 for True and False, one more than its child's for
\* Not, the sum of its children's for And and Or, and for Exists the sum over
\* all items of all alternatives.
C8_SizeIsTheCost ==
  /\ (pc = "done" /\ op = "Size" /\ WellFormed(arg)) =>
       err = NoErr /\ val.n >= 0 /\ val.n = Cost(arg)
  /\ (pc = "done" /\ op = "Exists.Size"
        /\ \A i \in 1..Len(arg.Args) : WellFormed(Or(arg.Args[i]))) =>
       err = NoErr /\ val.n >= 0 /\ val.n = CostOfAlternatives(arg.Args)

\* Size has been taken of Not(And[pattern, Not(True)]): 1 + (1 + (1 + 0)).
C8_Witness ==
  /\ pc = "done" /\ op = "Size"
  /\ arg = Not(And(<<TestNamePattern(S_a), Not(True)>>))
  /\ val.n = 3

\* C10: when "pattern" is present and is no string, parsing the fragment as
\* a name pattern returns an error and leaves the target as it was.
C10_NonStringPatternIsAnError ==
  (pc = "done" /\ op = "TestNamePattern.UnmarshalJSON"
     /\ Member(arg, "pattern") \notin {Absent}
     /\ Member(arg, "pattern").t # "string") =>
    err \notin {NoErr, PanicNil} /\ val = pre

----------------------------------------------------------------------------
(* RunQuery: parsing a payload, binding, and what a caller can do with the  *)
(* values it holds.                                                         *)

\* json.Unmarshal of the value v into a nil []int64.
DecodeRunIDs(v) ==
  CASE v.t \in {"absent", "null"} -> [err |-> NoErr, ids |-> <<>>]
    [] v.t = "array" ->
         IF \A i \in 1..Len(v.a) : v.a[i].t \in {"number", "null"}
         THEN [err |-> NoErr,
               ids |-> [i \in 1..Len(v.a) |-> IF v.a[i].t = "number" THEN v.a[i].n ELSE 0]]
         ELSE [err |-> ErrJSON, ids |-> <<>>]
    [] OTHER -> [err |-> ErrJSON, ids |-> <<>>]

\* json.Unmarshal of the value v into a nil itemQueries: ItemQuery is an
\* interface with a method, so only null can be decoded into an element.
DecodeItemQueries(v) ==
  CASE v.t = "null" -> [err |-> NoErr, qs |-> <<>>]
    [] v.t = "array" ->
         IF \A i \in 1..Len(v.a) : v.a[i].t = "null"
         THEN [err |-> NoErr, qs |-> [i \in 1..Len(v.a) |-> NilItem]]
         ELSE [err |-> ErrJSON, qs |-> <<>>]
    [] OTHER -> [err |-> ErrJSON, qs |-> <<>>]

\* unmarshalQ: json.Unmarshal of b into a nil []itemQueries.
unmarshalQ(b) ==
  LET ok == \/ b.t = "null"
            \/ /\ b.t = "array"
               /\ \A i \in 1..Len(b.a) : DecodeItemQueries(b.a[i]).err = NoErr
      exists == IF b.t = "array"
                THEN [i \in 1..Len(b.a) |-> DecodeItemQueries(b.a[i]).qs]
                ELSE <<>>
  IN IF ok THEN [err |-> NoErr, val |-> exists]
     ELSE [err |-> ErrParseQuery, val |-> <<>>]

\* RunQuery.UnmarshalJSON with the two missing-key checks in the other order.
RunQuery_UnmarshalJSON_QueryFirst(b) ==
  LET data == DecodeRunIDs(Member(b, "run_ids"))
      query == Member(b, "query")
      q == unmarshalQ(query)
  IN IF NotAnObject(b) \/ data.err # NoErr THEN [err |-> ErrJSON, RunIDs |-> <<>>, Exists |-> <<>>]
     ELSE IF query = Absent THEN [err |-> ErrMissingQuery, RunIDs |-> <<>>, Exists |-> <<>>]
     ELSE IF Len(data.ids) = 0 THEN [err |-> ErrMissingRunIDs, RunIDs |-> <<>>, Exists |-> <<>>]
     ELSE IF q.err # NoErr THEN [err |-> q.err, RunIDs |-> <<>>, Exists |-> <<>>]
     ELSE [err |-> NoErr, RunIDs |-> data.ids, Exists |-> q.val]

\* (rq *RunQuery) UnmarshalJSON: the error, and on success what is assigned
\* to rq.RunIDs and rq.Exists.
RunQuery_UnmarshalJSON(b) ==
  LET data == DecodeRunIDs(Member(b, "run_ids"))
      query == Member(b, "query")
      q == unmarshalQ(query)
  IN IF NotAnObject(b) \/ data.err # NoErr THEN [err |-> ErrJSON, RunIDs |-> <<>>, Exists |-> <<>>]
     ELSE IF Len(data.ids) = 0 THEN [err |-> ErrMissingRunIDs, RunIDs |-> <<>>, Exists |-> <<>>]
     ELSE IF query = Absent THEN [err |-> ErrMissingQuery, RunIDs |-> <<>>, Exists |-> <<>>]
     ELSE IF q.err # NoErr THEN [err |-> q.err, RunIDs |-> <<>>, Exists |-> <<>>]
     ELSE [err |-> NoErr, RunIDs |-> data.ids, Exists |-> q.val]

\* (r RunQuery) BindToRuns: the Exists holds the slice r.Exists itself.
BindToRuns(r, runs) == [set |-> TRUE, Runs |-> runs, Args |-> r.Exists]

\* The alternatives a slice holds.
Deref(a) == IF a = 0 THEN <<>> ELSE heap[a]

RunIDInputs ==
  {Absent, JNull, JArr(<<>>), JArr(<<JNum(1)>>), JArr(<<JNum(1), JNum(2)>>),
   JArr(<<JNum(1), JStr(S_a)>>), JStr(S_a)}

QueryInputs ==
  {Absent, JNull, JNum(1), JArr(<<>>), JArr(<<JNull>>), JArr(<<JArr(<<>>)>>),
   JArr(<<JArr(<<JNull>>), JNull>>), JArr(<<JPattern(JStr(S_a))>>),
   JArr(<<JArr(<<JPattern(JStr(S_a))>>)>>),
   JPattern(JStr(S_a)), JPattern(JNull),
   JStatusEq(JStr(S_chrome), JStr(S_PASS)),
   JStatusEq(JStr(S_unknownbrowser), JStr(S_PASS)),
   JStatusNeq(JStr(S_chrome), JStr(S_FAIL)),
   JNot(JPattern(JStr(S_a))),
   JOr(<<JPattern(JStr(S_a))>>), JOr(<<>>),
   JAnd(<<JStatusEq(JStr(S_chrome), JStr(S_PASS)), JStatusEq(JStr(S_chrome), JStr(S_FAIL))>>)}

Payloads ==
  {JNull, JArr(<<>>)}
    \cup {With(With(JObj({}), "run_ids", ids), "query", q) :
            ids \in RunIDInputs, q \in QueryInputs}

\* The run sets a caller binds to (the runs, by their IDs).
RunSets == {<<1>>, <<1, 2>>}

\* The alternatives a caller stores into a list of alternatives it holds.
NewAlternatives == {<<>>, <<TestNamePattern(S_a)>>, <<Not(True), False>>}

Slot(i) == [kind |-> "slot", n |-> i]

\* A payload arrives and the caller's RunQuery is the zero value.
Init ==
  /\ pc = "call"
  /\ op = "RunQuery.UnmarshalJSON"
  /\ arg \in Payloads
  /\ pre = NilItem
  /\ err = NoErr
  /\ val = NilItem
  /\ Untouched

\* json.Unmarshal(payload, &rq)
CallRunQueryUnmarshal ==
  /\ pc = "call" /\ op = "RunQuery.UnmarshalJSON"
  /\ LET r == RunQuery_UnmarshalJSON(arg)
     IN /\ err' = r.err
        /\ IF r.err # NoErr THEN UNCHANGED <<rq, heap>>
           ELSE IF r.Exists = <<>>
           THEN rq' = [RunIDs |-> r.RunIDs, Exists |-> 0] /\ UNCHANGED heap
           ELSE /\ rq' = [RunIDs |-> r.RunIDs, Exists |-> 1]
                /\ heap' = [heap EXCEPT ![1] = r.Exists]
  /\ pc' = "done"
  /\ UNCHANGED <<op, arg, pre, val, bound>>

\* bound[i] = rq.BindToRuns(runs)
CallBindToRuns(i, runs) ==
  /\ pc = "done"
  /\ bound' = [bound EXCEPT ![i] = BindToRuns(rq, runs)]
  /\ op' = "BindToRuns" /\ pre' = Slot(i) /\ err' = NoErr /\ val' = NilItem
  /\ UNCHANGED <<pc, arg, rq, heap>>

\* bound[i].Args[k] = alt, by the holder of bound[i]
SetArg(i, k, alt) ==
  /\ pc = "done"
  /\ bound[i].set
  /\ k \in 1..Len(Deref(bound[i].Args))
  /\ heap' = [heap EXCEPT ![bound[i].Args][k] = alt]
  /\ op' = "SetArg" /\ pre' = Slot(i) /\ err' = NoErr /\ val' = NilItem
  /\ UNCHANGED <<pc, arg, rq, bound>>

\* rq.Exists[k] = alt, by the holder of rq
SetExists(k, alt) ==
  /\ pc = "done"
  /\ k \in 1..Len(Deref(rq.Exists))
  /\ heap' = [heap EXCEPT ![rq.Exists][k] = alt]
  /\ op' = "SetExists" /\ pre' = NilItem /\ err' = NoErr /\ val' = NilItem
  /\ UNCHANGED <<pc, arg, rq, bound>>

\* bound[i].Size()
CallBoundSize(i) ==
  /\ pc = "done"
  /\ bound[i].set
  /\ LET r == SizeResult(Exists_Size(Deref(bound[i].Args)))
     IN err' = r.err /\ val' = r.val
  /\ op' = "Exists.Size" /\ pre' = Slot(i)
  /\ UNCHANGED <<pc, arg, rq, heap, bound>>

Next ==
  \/ CallRunQueryUnmarshal
  \/ \E i \in 1..MaxBinds, runs \in RunSets : CallBindToRuns(i, runs)
  \/ \E i \in 1..MaxBinds, k \in 1..MaxArgs, alt \in NewAlternatives : SetArg(i, k, alt)
  \/ \E k \in 1..MaxArgs, alt \in NewAlternatives : SetExists(k, alt)
  \/ \E i \in 1..MaxBinds : CallBoundSize(i)

Spec == Init /\ [][Next]_vars

----------------------------------------------------------------------------
(* The claims about RunQuery, under Spec. *)

RunIDsOf(b) == Member(b, "run_ids")
QueryOf(b) == Member(b, "query")

\* A non-empty list of integers.
IsIDList(v) ==
  v.t = "array" /\ Len(v.a) > 0 /\ \A i \in 1..Len(v.a) : v.a[i].t = "number"

\* run_ids is absent or empty (null among the empty).
NoRunIDs(b) == RunIDsOf(b) \in {Absent, JNull, JArr(<<>>)}

\* What the claim says a fragment of some shape costs.
RECURSIVE JCost(_)
RECURSIVE JCostSum(_)
JCostSum(fs) == IF fs = <<>> THEN 0 ELSE JCost(Head(fs)) + JCostSum(Tail(fs))
JCost(f) ==
  CASE ShapeOf(f) \in {"TestNamePattern", "RunTestStatusEq", "RunTestStatusNeq"} -> 1
    [] ShapeOf(f) = "Not" -> 1 + JCost(f.o["not"])
    [] ShapeOf(f) = "Or" -> JCostSum(f.o["or"].a)
    [] ShapeOf(f) = "And" -> JCostSum(f.o["and"].a)

\* The payload has a non-empty list of run IDs and a query of one of the six
\* item-query shapes.
WellFormedPayload ==
  arg.t = "object" /\ IsIDList(RunIDsOf(arg)) /\ ShapeOf(QueryOf(arg)) # "none"

\* C1: a payload with non-empty run_ids whose query is a well-formed
\* item-query shape parses, and the query bound from it has the Size of that
\* item tree (2 for {"and": [chrome PASS, chrome FAIL]}).
C1_WellFormedPayloadParses ==
  WellFormedPayload =>
    /\ (pc = "done" /\ op = "RunQuery.UnmarshalJSON") => err = NoErr
    /\ (pc = "done" /\ op = "Exists.Size") =>
         err = NoErr /\ val.n = JCost(QueryOf(arg))

C3_ParsedFieldsNonEmpty ==
  (pc = "done" /\ op = "RunQuery.UnmarshalJSON" /\ err = NoErr) =>
    Len(rq.RunIDs) > 0 /\ Len(Deref(rq.Exists)) > 0

\* The alternatives seen through the bound query i.
ArgsOf(i) == Deref(bound[i].Args)

\* C9: BindToRuns leaves the RunQuery as it is, and a later change to the
\* argument list of one bound query, or to the RunQuery's Exists, is not seen
\* through another bound query (nor, for a change to a bound query, through
\* the RunQuery).
C9_BoundQueriesIndependent ==
  [][/\ op' = "BindToRuns" => rq' = rq /\ Deref(rq.Exists)' = Deref(rq.Exists)
     /\ op' = "SetArg" =>
          /\ Deref(rq.Exists)' = Deref(rq.Exists)
          /\ \A j \in 1..MaxBinds : (j # pre'.n /\ bound[j].set) => ArgsOf(j)' = ArgsOf(j)
     /\ op' = "SetExists" =>
          \A j \in 1..MaxBinds : bound[j].set => ArgsOf(j)' = ArgsOf(j)]_vars

====
